---- MODULE Spec2Model ----
(***************************************************************************)
(* AuthManager of mcp-autodesk-build (src/src/auth.js): the OAuth2 token   *)
(* record, its refresh, the code exchange, logout and the authenticated    *)
(* request wrapper, as a state machine.                                    *)
(*                                                                         *)
(* Node runs one macrotask at a time: a handler runs from the arrival of   *)
(* an awaited network or storage result up to the next network or storage  *)
(* call it awaits.  Each such stretch is one action here.  Callers are the *)
(* slots of Procs; slot 1 starts as the loadTokens call of the constructor.*)
(*                                                                         *)
(* Times are milliseconds (Date.now()).  Tokens are numbered: 0 is         *)
(* null/undefined, n > 0 is the n-th token the provider issued.            *)
(***************************************************************************)
EXTENDS Integers, Sequences, FiniteSets, TLC

\* ---------------------------------------------------------------- bounds
NumProcs == 2
MaxOps == 2
MaxTicks == 1
MaxResponses == 1
MaxSeqResponses == 3
MaxCalls == 2
StartTime == 1000000

\* ------------------------------------------------------ program constants
SkewSeconds == 300
DefaultExpiresIn == 3600

Null == -1
Absent == -1

Procs == 1..NumProcs
\* what a token response may carry besides the access token: rt, whether it
\* carries a refresh_token; e, its expires_in (seconds), Absent when it has none
TokenResponses ==
  {[rt |-> TRUE, e |-> 3600], [rt |-> FALSE, e |-> 3600], [rt |-> TRUE, e |-> 299],
   [rt |-> TRUE, e |-> 0], [rt |-> FALSE, e |-> Absent]}
\* clock advances (ms) between two events
TickSteps == {1500, 3299000, 3300000}
\* answers of the API to a request: 0 is a network failure (no response)
ApiStatuses == {200, 401, 500, 0}
\* answers of the token endpoint that carry no tokens: 400 is an invalid_grant
\* rejection, 503 a transient server error, 0 a network failure
RefreshFailures == {400, 503, 0}
\* the Authorization header options.headers supplies to makeAuthenticatedRequest:
\* 0 when it supplies none, -2 a bearer token of the caller's own
OptionsAuthorization == {0, -2}
isInvalidGrant(status) == status = 400
isTransient(status) == status \in {503, 0}

\* the configurations loadConfig can produce (config.js 9-19, 55-61): clientId
\* and callbackUrl come from the environment, authUrl and scope are the defaults
Configs ==
  {[authUrl |-> "https://developer.api.autodesk.com/authentication/v2",
    clientId |-> "client-a",
    callbackUrl |-> "http://localhost:3000/callback",
    scope |-> "data:read data:write account:read account:write"],
   [authUrl |-> "https://developer.api.autodesk.com/authentication/v2",
    clientId |-> "client b",
    callbackUrl |-> "https://app.example/cb",
    scope |-> "data:read data:write account:read account:write"]}

VARIABLES
  accessToken,      \* this.accessToken
  refreshToken,     \* this.refreshToken
  tokenExpiry,      \* this.tokenExpiry (ms), Null when null
  isAuthenticated,  \* this.isAuthenticated
  store,            \* the record TokenStorage holds, NoTokens when absent
  pendingClears,    \* clearTokens() calls nobody awaits whose storage clear has not completed
  now,              \* Date.now()
  grant,            \* the token response this.accessToken came from: at, Date.now() when
                    \* saveTokens stored it; ttl, its expires_in (NoGrant when unknown)
  issued,           \* tokens the provider has issued so far
  procs,            \* the callers
  ops,              \* operations started since construction
  ticks,            \* clock advances so far
  oneAtATime,       \* the callers' discipline: TRUE when every call is made only
                    \* once no call and no storage operation is in flight
  config,           \* this.config.autodesk
  storageFailed,    \* a tokenStorage call of this manager has failed
  emitted,          \* the event the step just taken emitted ("none": no event)
  call,             \* the call of a handler createTool returned
  registration      \* the call of registerTools

mem == <<accessToken, refreshToken, tokenExpiry, isAuthenticated>>
vars == <<accessToken, refreshToken, tokenExpiry, isAuthenticated, store,
          pendingClears, now, grant, issued, procs, ops, ticks, oneAtATime, config, storageFailed,
          emitted, call, registration>>
\* the AuthManager and its callers
auth == <<accessToken, refreshToken, tokenExpiry, isAuthenticated, store,
          pendingClears, now, grant, issued, procs, ops, ticks, oneAtATime, config,
          storageFailed, emitted>>
\* the tool handlers and their registration
server == <<call, registration>>

\* ---------------------------------------------------------- TokenStorage
NoGrant == [at |-> 0, ttl |-> Absent]
NoTokens == [accessToken |-> 0, refreshToken |-> 0, expiresAt |-> [sec |-> 0, ms |-> 0]]

\* Date.prototype.toISOString: the instant as text with a seconds part and a
\* three-digit milliseconds part
toISOString(t) == [sec |-> t \div 1000, ms |-> t % 1000]
\* mutant: the instant read back without its milliseconds
newDateSeconds(s) == s.sec * 1000

\* new Date(isoString)
newDate(s) == s.sec * 1000 + s.ms

\* ------------------------------------------------------------------ tools
\* registerTools, lines 177-187: the groups in the order of the array
toolRegistrations ==
  <<"Projects", "Issues", "RFIs", "Submittals", "Photos", "Forms", "Cost",
    "Locations", "Documents">>
\* what a register function resolves with: the number of tools it registered
Counts == {1, 3}

NotRegistered ==
  [pc |-> "idle", i |-> 0, called |-> <<>>, counts |-> <<>>, totalTools |-> 0,
   result |-> Null, thrown |-> "none"]

\* values the wrapped handler returns: a string, a number, undefined and an
\* object that refers to itself
ReturnValues ==
  {[k |-> "returns", type |-> "string", s |-> "ok"],
   [k |-> "returns", type |-> "number", s |-> "7"],
   [k |-> "returns", type |-> "undefined", s |-> ""],
   [k |-> "returns", type |-> "circular", s |-> ""]}
\* what the wrapped handler throws or rejects with: an Error, a ZodError of a
\* schema it parses with itself, and undefined (throw undefined, reject())
Thrown ==
  {[k |-> "throws", type |-> "Error", s |-> "boom"],
   [k |-> "throws", type |-> "ZodError", s |-> "items.0.id: Required"],
   [k |-> "throws", type |-> "undefined", s |-> ""]}
HandlerOutcomes == ReturnValues \cup Thrown
NoOutcome == [k |-> "none", type |-> "none", s |-> ""]

\* the promise the handler of createTool returned: pending, resolved with a
\* result (isError FALSE: the result has no isError), or rejected
Pending == [settled |-> "pending", isError |-> FALSE, text |-> <<>>]
Resolved(isError, text) == [settled |-> "resolved", isError |-> isError, text |-> text]
Rejected == [settled |-> "rejected", isError |-> FALSE, text |-> <<>>]

IdleCall == [pc |-> "idle", n |-> 0, args |-> "none", invoked |-> 0,
             outcome |-> NoOutcome, result |-> Pending]

\* schema.parse(args) of arguments that fail the schema: line 226
parseError == [k |-> "throws", type |-> "ZodError", s |-> "projectId: Required"]

\* JSON.stringify(result, null, 2), line 235: a string is quoted, undefined
\* gives undefined (no text), an object that refers to itself throws a TypeError
stringify(v) ==
  CASE v.type = "string"   -> [ok |-> TRUE, text |-> <<"\"", v.s, "\"">>, error |-> NoOutcome]
    [] v.type = "number"   -> [ok |-> TRUE, text |-> <<v.s>>, error |-> NoOutcome]
    [] v.type = "circular" ->
         [ok |-> FALSE, text |-> <<>>,
          error |-> [k |-> "throws", type |-> "Error",
                     s |-> "Converting circular structure to JSON"]]
    [] OTHER               -> [ok |-> TRUE, text |-> <<>>, error |-> NoOutcome]

\* the catch block of the handler, lines 239-263: reading error.message of
\* undefined throws inside the catch, which rejects the promise
catchError(error) ==
  IF error.type = "ZodError" THEN Resolved(TRUE, <<"Validation error: ", error.s>>)
  ELSE IF error.type = "undefined" THEN Rejected
  ELSE Resolved(TRUE, <<"Error: ", error.s>>)

\* ------------------------------------------------------------ AuthManager
isTokenExpiredAt(expiry, t) == expiry = Null \/ t >= expiry
isTokenExpired == isTokenExpiredAt(tokenExpiry, now)

\* mutant: expires_in taken as it comes, without the default
expiresInNoDefault(tokenData) == tokenData.expires_in

\* saveTokens, line 150: tokenData.expires_in || 3600
expiresIn(tokenData) ==
  IF tokenData.expires_in = Absent \/ tokenData.expires_in = 0
  THEN DefaultExpiresIn ELSE tokenData.expires_in

\* mutant: the expiry without the five minutes subtracted
expiryOfNoSkew(tokenData, t) == t + expiresIn(tokenData) * 1000

\* saveTokens, line 151
expiryOf(tokenData, t) == t + (expiresIn(tokenData) - SkewSeconds) * 1000

\* mutant: the refresh token overwritten by whatever the response carries
refreshTokenOverwritten(tokenData, old) == tokenData.refresh_token

\* saveTokens, line 147: tokenData.refresh_token || this.refreshToken
refreshTokenOf(tokenData, old) ==
  IF tokenData.refresh_token # 0 THEN tokenData.refresh_token ELSE old

\* mutant: the fields of the record set without the flag
saveTokensNoFlag(tokenData) ==
  /\ accessToken' = tokenData.access_token
  /\ refreshToken' = refreshTokenOf(tokenData, refreshToken)
  /\ tokenExpiry' = expiryOf(tokenData, now)
  /\ isAuthenticated' = isAuthenticated

\* saveTokens up to its await: the four fields
saveTokens(tokenData) ==
  /\ accessToken' = tokenData.access_token
  /\ refreshToken' = refreshTokenOf(tokenData, refreshToken)
  /\ tokenExpiry' = expiryOf(tokenData, now)
  /\ isAuthenticated' = TRUE

\* mutant: the record handed to the store built before the fields are assigned
savedRecordStale(tokenData) ==
  [accessToken |-> accessToken,
   refreshToken |-> refreshToken,
   expiresAt |-> toISOString(tokenExpiry)]

\* the record saveTokens hands to tokenStorage.saveTokens
savedRecord(tokenData) ==
  [accessToken |-> tokenData.access_token,
   refreshToken |-> refreshTokenOf(tokenData, refreshToken),
   expiresAt |-> toISOString(expiryOf(tokenData, now))]

\* mutant: a clear that keeps the refresh token
clearTokensKeepingRefresh ==
  /\ accessToken' = 0
  /\ refreshToken' = refreshToken
  /\ tokenExpiry' = Null
  /\ isAuthenticated' = FALSE

\* clearTokens up to its await: the four fields
clearTokens ==
  /\ accessToken' = 0
  /\ refreshToken' = 0
  /\ tokenExpiry' = Null
  /\ isAuthenticated' = FALSE

\* URLSearchParams.prototype.toString on one value: the
\* application/x-www-form-urlencoded form of the strings a configuration holds
formEncode(str) ==
  CASE str = "http://localhost:3000/callback" -> "http%3A%2F%2Flocalhost%3A3000%2Fcallback"
    [] str = "https://app.example/cb" -> "https%3A%2F%2Fapp.example%2Fcb"
    [] str = "data:read data:write account:read account:write" ->
         "data%3Aread+data%3Awrite+account%3Aread+account%3Awrite"
    [] str = "client b" -> "client+b"
    [] OTHER -> str

\* mutant: the URL without its scope parameter
authorizationUrlNoScope(cfg) ==
  <<cfg.authUrl, "/authorize", "?",
    "response_type", "=", "code", "&",
    "client_id", "=", formEncode(cfg.clientId), "&",
    "redirect_uri", "=", formEncode(cfg.callbackUrl)>>

\* getAuthorizationUrl, lines 55-64 (the authorize endpoint is config.js 131):
\* the URL as the sequence of its pieces
authorizationUrl(cfg) ==
  <<cfg.authUrl, "/authorize", "?",
    "response_type", "=", "code", "&",
    "client_id", "=", formEncode(cfg.clientId), "&",
    "redirect_uri", "=", formEncode(cfg.callbackUrl), "&",
    "scope", "=", formEncode(cfg.scope)>>

\* ------------------------------------------------------------ the callers
\* what a call ended with: k, "ok" or the kind of error thrown; v, the value
\* returned or the status behind the error; url, the URL the value or the error
\* carries, NoUrl when it carries none
NoUrl == <<>>
Ok(v) == [k |-> "ok", v |-> v, url |-> NoUrl]
\* new Error(message): lines 96, 105, 137, 193
Err(k, v) == [k |-> k, v |-> v, url |-> NoUrl]
NoResult == [k |-> "none", v |-> 0, url |-> NoUrl]

NoData == [access_token |-> 0, refresh_token |-> 0, expires_in |-> Absent]

\* op: the operation called; seq: its number among the calls; pc: what it awaits;
\* phase: where refreshAccessToken or getAccessToken was called from; res: how
\* it ended; nRef: refresh requests it sent; r401: nRef when its first API
\* request was answered 401, Null before; nApi: API requests it sent; sent: refresh token in
\* its pending refresh request; hdr: bearer token in its pending API request;
\* rec: record in its pending storage save; data: last token response it got;
\* ev: the last event the manager emitted on its behalf ("none" before any);
\* status: the status of the last answer of the API to it, Null before any;
\* own: options.headers.Authorization of a makeAuthenticatedRequest call
IdleProc == [op |-> "none", seq |-> 0, pc |-> "idle", phase |-> "none", res |-> NoResult,
             nRef |-> 0, r401 |-> Null, nApi |-> 0, sent |-> 0, hdr |-> 0,
             rec |-> NoTokens, data |-> NoData, ev |-> "none", status |-> Null,
             own |-> 0]

\* a call of operation o starts
Fresh(o) == [IdleProc EXCEPT !.op = o, !.seq = ops + 1]

\* mutant: loadTokens without its catch
DoneRethrowing(r, x) ==
  [r EXCEPT !.pc = "idle", !.phase = "none", !.sent = 0, !.hdr = 0, !.rec = NoTokens,
            !.res = x]

\* the call ends with result x; loadTokens swallows every error (lines 46-48)
Done(r, x) ==
  [r EXCEPT !.pc = "idle", !.phase = "none", !.sent = 0, !.hdr = 0, !.rec = NoTokens,
            !.res = IF r.op = "load" THEN Ok(0) ELSE x]

\* {...headers, ...options.headers} (lines 234-237, 258-261): the Authorization
\* header of the request, given the bearer token of getAuthHeaders
mergedAuthorization(token, optionsAuthorization) ==
  IF optionsAuthorization # 0 THEN optionsAuthorization ELSE token

\* an API request leaves with the headers just built
SendApi(r) ==
  [r EXCEPT !.pc = "api", !.nApi = @ + 1,
            !.hdr = mergedAuthorization(accessToken, r.own)]

\* mutant: the request sent without looking at this.refreshToken
refreshCallUnguarded(r, ph, rt) ==
  [r EXCEPT !.pc = "refresh", !.phase = ph, !.nRef = @ + 1, !.sent = rt]

\* mutant: a call for the first headers that, finding no refresh token, goes on
\* with the token it has
refreshCallOrProceed(r, ph, rt) ==
  IF rt = 0
  THEN IF ph = "hdr1" THEN SendApi([r EXCEPT !.phase = ph])
       ELSE Done(r, Err("NoRefreshToken", 0))
  ELSE [r EXCEPT !.pc = "refresh", !.phase = ph, !.nRef = @ + 1, !.sent = rt]

\* refreshAccessToken up to its first await, called in phase ph with
\* this.refreshToken = rt: lines 103-124
refreshCall(r, ph, rt) ==
  IF rt = 0
  THEN Done(r, Err("NoRefreshToken", 0))
  ELSE [r EXCEPT !.pc = "refresh", !.phase = ph, !.nRef = @ + 1, !.sent = rt]

\* getAccessToken line 200 has returned this.accessToken to the caller in phase ph
afterToken(r, ph) ==
  IF ph = "get" THEN Done(r, Ok(accessToken))
  ELSE SendApi([r EXCEPT !.phase = ph])

\* mutant: the token handed out without looking at this.isAuthenticated
getAccessTokenUnchecked(r, ph) ==
  IF isTokenExpired THEN refreshCall(r, ph, refreshToken)
  ELSE afterToken(r, ph)

\* mutant: a refresh before every token handed out
getAccessTokenAlwaysRefreshing(r, ph) ==
  IF ~isAuthenticated THEN Done(r, Err("NotAuthenticated", 0))
  ELSE refreshCall(r, ph, refreshToken)

\* getAccessToken, lines 191-201, called in phase ph
getAccessTokenCall(r, ph) ==
  IF ~isAuthenticated THEN Done(r, Err("NotAuthenticated", 0))
  ELSE IF isTokenExpired THEN refreshCall(r, ph, refreshToken)
  ELSE afterToken(r, ph)

\* refreshAccessToken has returned true to the caller that awaited it
afterRefresh(r) ==
  CASE r.phase = "direct" -> Done(r, Ok(1))
    [] r.phase = "load"   -> Done(r, Ok(0))
    [] r.phase = "forced" -> getAccessTokenCall(r, "hdr2")
    [] OTHER              -> afterToken(r, r.phase)

Idle(p) == procs[p].pc = "idle"
\* no call and no storage operation is in flight
Quiet == pendingClears = 0 /\ \A q \in Procs : Idle(q)
\* a new call takes the lowest free slot: the slots are interchangeable
CanStart(p) ==
  /\ Idle(p) /\ ops < MaxOps /\ \A q \in 1..(p - 1) : ~Idle(q)
  /\ oneAtATime => Quiet

Start(p, r) ==
  /\ procs' = [procs EXCEPT ![p] = r]
  /\ ops' = ops + 1

\* ----------------------------------------------------------------- actions
Tick ==
  /\ ticks < MaxTicks
  /\ \E d \in TickSteps : now' = now + d
  /\ ticks' = ticks + 1
  /\ UNCHANGED <<mem, store, pendingClears, grant, issued, procs, ops, oneAtATime, config, storageFailed>>
  /\ emitted' = "none"
  /\ UNCHANGED server

\* loadTokens: tokenStorage.getTokens() has answered (lines 32-45)
loadTokens(p) ==
  /\ procs[p].pc = "getTokens"
  /\ IF store = NoTokens
     THEN /\ procs' = [procs EXCEPT ![p] = Done(@, Ok(0))]
          /\ UNCHANGED <<mem, grant>>
     ELSE /\ accessToken' = store.accessToken
          /\ grant' = NoGrant
          /\ refreshToken' = store.refreshToken
          /\ tokenExpiry' = newDate(store.expiresAt)
          /\ isAuthenticated' = TRUE
          /\ procs' = [procs EXCEPT ![p] =
                IF isTokenExpiredAt(newDate(store.expiresAt), now)
                THEN refreshCall(@, "load", store.refreshToken)
                ELSE Done(@, Ok(0))]
  /\ UNCHANGED <<store, pendingClears, now, issued, ops, ticks, oneAtATime, config, storageFailed>>
  /\ emitted' = "none"
  /\ UNCHANGED server

\* loadTokens: tokenStorage.getTokens() has failed (lines 46-48)
loadTokensFailed(p) ==
  /\ procs[p].pc = "getTokens"
  /\ procs' = [procs EXCEPT ![p] = Done(@, Ok(0))]
  /\ storageFailed' = TRUE
  /\ UNCHANGED <<mem, store, pendingClears, now, grant, issued, ops, ticks, oneAtATime, config>>
  /\ emitted' = "none"
  /\ UNCHANGED server

\* getAccessToken() is called
getAccessToken(p) ==
  /\ CanStart(p)
  /\ Start(p, getAccessTokenCall(Fresh("get"), "get"))
  /\ UNCHANGED <<mem, store, pendingClears, now, grant, issued, ticks, oneAtATime, config, storageFailed>>
  /\ emitted' = "none"
  /\ UNCHANGED server

\* refreshAccessToken() is called
refreshAccessToken(p) ==
  /\ CanStart(p)
  /\ Start(p, refreshCall(Fresh("refresh"), "direct", refreshToken))
  /\ UNCHANGED <<mem, store, pendingClears, now, grant, issued, ticks, oneAtATime, config, storageFailed>>
  /\ emitted' = "none"
  /\ UNCHANGED server

\* makeAuthenticatedRequest(options) is called: line 221
makeAuthenticatedRequest(p) ==
  /\ CanStart(p)
  /\ \E a \in OptionsAuthorization :
       Start(p, getAccessTokenCall([Fresh("request") EXCEPT !.own = a], "hdr1"))
  /\ UNCHANGED <<mem, store, pendingClears, now, grant, issued, ticks, oneAtATime, config, storageFailed>>
  /\ emitted' = "none"
  /\ UNCHANGED server

\* handleCallback(code) is called: the code exchange leaves (lines 72-86)
handleCallback(p) ==
  /\ CanStart(p)
  /\ Start(p, [Fresh("callback") EXCEPT !.pc = "exchange"])
  /\ UNCHANGED <<mem, store, pendingClears, now, grant, issued, ticks, oneAtATime, config, storageFailed>>
  /\ emitted' = "none"
  /\ UNCHANGED server

\* getAuthorizationUrl() is called and returns: lines 55-64
getAuthorizationUrl(p) ==
  /\ CanStart(p)
  /\ Start(p, Done(Fresh("url"), [Ok(0) EXCEPT !.url = authorizationUrl(config)]))
  /\ UNCHANGED <<mem, store, pendingClears, now, grant, issued, ticks, oneAtATime, config, storageFailed>>
  /\ emitted' = "none"
  /\ UNCHANGED server

\* clearTokens() is called (logout): lines 166-172
logout(p) ==
  /\ CanStart(p)
  /\ clearTokens
  /\ grant' = NoGrant
  /\ Start(p, [Fresh("clear") EXCEPT !.pc = "clear"])
  /\ UNCHANGED <<store, pendingClears, now, issued, ticks, oneAtATime, config, storageFailed>>
  /\ emitted' = "none"
  /\ UNCHANGED server

\* token responses explored: more of them when the callers take turns
ResponseBound == IF oneAtATime THEN MaxSeqResponses ELSE MaxResponses

\* the provider answers a token request with tokens: data is the response body
TokenData(x) ==
  [access_token |-> issued + 1,
   refresh_token |-> IF x.rt THEN issued + 1 ELSE 0,
   expires_in |-> x.e]

Issue(data) ==
  /\ issued' = issued + 1
  /\ grant' = [at |-> now, ttl |-> data.expires_in]

\* a token response has arrived: saveTokens runs up to its storage call
\* (lines 88 and 126, 145-160)
tokenResponse(p, awaiting) ==
  /\ procs[p].pc = awaiting
  /\ issued <= ResponseBound
  /\ \E x \in TokenResponses :
       LET data == TokenData(x) IN
       /\ saveTokens(data)
       /\ Issue(data)
       /\ procs' = [procs EXCEPT ![p].pc = "save",
                                 ![p].rec = savedRecord(data),
                                 ![p].data = data]
  /\ UNCHANGED <<store, pendingClears, now, ops, ticks, oneAtATime, config, storageFailed>>
  /\ emitted' = "none"
  /\ UNCHANGED server

exchangeResponse(p) == tokenResponse(p, "exchange")
refreshResponse(p) == tokenResponse(p, "refresh")

\* mutant: a failed code exchange handled like a failed refresh
exchangeFailedClearing(p) ==
  /\ procs[p].pc = "exchange"
  /\ clearTokens
  /\ grant' = NoGrant
  /\ procs' = [procs EXCEPT ![p] = Done(@, Err("AuthenticationFailed", 0))]
  /\ UNCHANGED <<store, pendingClears, now, issued, ops, ticks, oneAtATime, config, storageFailed>>
  /\ emitted' = "none"
  /\ UNCHANGED server

\* the code exchange failed: lines 94-97
exchangeFailed(p) ==
  /\ procs[p].pc = "exchange"
  /\ procs' = [procs EXCEPT ![p] = Done(@, Err("AuthenticationFailed", 0))]
  /\ UNCHANGED <<mem, store, pendingClears, now, grant, issued, ops, ticks, oneAtATime, config, storageFailed>>
  /\ emitted' = "none"
  /\ UNCHANGED server

\* mutant: a catch block that only rethrows
refreshCatchKeeping(p, why) ==
  /\ UNCHANGED <<mem, grant, pendingClears>>
  /\ procs' = [procs EXCEPT ![p] = Done(@, Err("RefreshFailed", why))]

\* the catch block of refreshAccessToken: lines 132-138.  clearTokens() is
\* called and not awaited.  The error thrown is the same whatever failed; the
\* result keeps the status the token endpoint answered with (200 when it
\* answered with tokens and saving them failed)
refreshCatch(p, why) ==
  /\ clearTokens
  /\ grant' = NoGrant
  /\ pendingClears' = pendingClears + 1
  /\ procs' = [procs EXCEPT ![p] = Done(@, Err("RefreshFailed", why))]

\* the refresh request failed
refreshFailed(p) ==
  /\ procs[p].pc = "refresh"
  /\ \E why \in RefreshFailures : refreshCatch(p, why)
  /\ UNCHANGED <<store, now, issued, ops, ticks, oneAtATime, config, storageFailed>>
  /\ emitted' = "none"
  /\ UNCHANGED server

\* tokenStorage.saveTokens has completed: lines 90-93, 128-131 and what the
\* awaiting caller does next
saveCompleted(p) ==
  /\ procs[p].pc = "save"
  /\ store' = procs[p].rec
  /\ procs' = [procs EXCEPT ![p] =
        IF @.op = "callback" THEN Done([@ EXCEPT !.ev = "authenticated"], Ok(1))
        ELSE afterRefresh([@ EXCEPT !.ev = "token_refreshed"])]
  /\ UNCHANGED <<mem, pendingClears, now, grant, issued, ops, ticks, oneAtATime, config, storageFailed>>
  /\ emitted' = IF procs[p].op = "callback" THEN "authenticated" ELSE "token_refreshed"
  /\ UNCHANGED server

\* mutant: the event emitted although the save failed
saveFailedEmitting(p) ==
  /\ procs[p].pc = "save"
  /\ IF procs[p].op = "callback"
     THEN /\ procs' = [procs EXCEPT ![p] = Done(@, Err("AuthenticationFailed", 0))]
          /\ UNCHANGED <<mem, pendingClears, grant>>
     ELSE refreshCatch(p, 200)
  /\ storageFailed' = TRUE
  /\ UNCHANGED <<store, now, issued, ops, ticks, oneAtATime, config>>
  /\ emitted' = IF procs[p].op = "callback" THEN "authenticated" ELSE "token_refreshed"
  /\ UNCHANGED server

\* tokenStorage.saveTokens has failed
saveFailed(p) ==
  /\ procs[p].pc = "save"
  /\ IF procs[p].op = "callback"
     THEN /\ procs' = [procs EXCEPT ![p] = Done(@, Err("AuthenticationFailed", 0))]
          /\ UNCHANGED <<mem, pendingClears, grant>>
     ELSE refreshCatch(p, 200)
  /\ storageFailed' = TRUE
  /\ UNCHANGED <<store, now, issued, ops, ticks, oneAtATime, config>>
  /\ emitted' = "none"
  /\ UNCHANGED server

\* tokenStorage.clearTokens of an awaited clearTokens() has completed: lines 172-175
clearCompleted(p) ==
  /\ procs[p].pc = "clear"
  /\ store' = NoTokens
  /\ procs' = [procs EXCEPT ![p] = Done([@ EXCEPT !.ev = "logout"], Ok(0))]
  /\ UNCHANGED <<mem, pendingClears, now, grant, issued, ops, ticks, oneAtATime, config, storageFailed>>
  /\ emitted' = "logout"
  /\ UNCHANGED server

\* tokenStorage.clearTokens of a clearTokens() nobody awaits has completed
floatingClearCompleted ==
  /\ pendingClears > 0
  /\ store' = NoTokens
  /\ pendingClears' = pendingClears - 1
  /\ UNCHANGED <<mem, now, grant, issued, procs, ops, ticks, oneAtATime, config, storageFailed>>
  /\ emitted' = "logout"
  /\ UNCHANGED server

\* mutant: a refresh and a retry after any failed request
apiResponseRetryingAll(p) ==
  /\ procs[p].pc = "api"
  /\ \E status \in ApiStatuses :
       LET r == [procs[p] EXCEPT !.status = status] IN
       procs' = [procs EXCEPT ![p] =
         IF status = 200 THEN Done(r, Ok(status))
         ELSE IF r.nApi = 1
              THEN refreshCall([r EXCEPT !.r401 = r.nRef], "forced", refreshToken)
              ELSE Done(r, Err("ApiError", status))]
  /\ UNCHANGED <<mem, store, pendingClears, now, grant, issued, ops, ticks, oneAtATime, config, storageFailed>>
  /\ emitted' = "none"
  /\ UNCHANGED server

\* mutant: a forced refresh and a retry after every 401
apiResponseRetryingEvery401(p) ==
  /\ procs[p].pc = "api"
  /\ \E status \in ApiStatuses :
       LET r == [procs[p] EXCEPT !.status = status] IN
       procs' = [procs EXCEPT ![p] =
         IF status = 200 THEN Done(r, Ok(status))
         ELSE IF status = 401
              THEN refreshCall([r EXCEPT !.r401 = r.nRef], "forced", refreshToken)
              ELSE Done(r, Err("ApiError", status))]
  /\ UNCHANGED <<mem, store, pendingClears, now, grant, issued, ops, ticks, oneAtATime, config, storageFailed>>
  /\ emitted' = "none"
  /\ UNCHANGED server

\* the API has answered a request of makeAuthenticatedRequest: lines 247-266
apiResponse(p) ==
  /\ procs[p].pc = "api"
  /\ \E status \in ApiStatuses :
       LET r == [procs[p] EXCEPT !.status = status] IN
       procs' = [procs EXCEPT ![p] =
         IF status = 200 THEN Done(r, Ok(status))
         ELSE IF r.nApi = 1 /\ status = 401
              THEN refreshCall([r EXCEPT !.r401 = r.nRef], "forced", refreshToken)
              ELSE Done(r, Err("ApiError", status))]
  /\ UNCHANGED <<mem, store, pendingClears, now, grant, issued, ops, ticks, oneAtATime, config, storageFailed>>
  /\ emitted' = "none"
  /\ UNCHANGED server

\* ------------------------------------------------------------------- Init
\* what the store may hold when the process starts: nothing, or a record an
\* earlier run saved
InitRecords ==
  {NoTokens} \cup
  {[accessToken |-> 1, refreshToken |-> 1, expiresAt |-> toISOString(t)] :
     t \in {StartTime - 1000, StartTime + 3300000}}

Constructed ==
  /\ accessToken = 0
  /\ refreshToken = 0
  /\ tokenExpiry = Null
  /\ isAuthenticated = FALSE
  /\ store \in InitRecords
  /\ pendingClears = 0
  /\ now = StartTime
  /\ grant = NoGrant
  /\ issued = 1
  /\ procs = [p \in Procs |->
               IF p = 1 THEN [IdleProc EXCEPT !.op = "load", !.pc = "getTokens"]
               ELSE IdleProc]
  /\ ops = 0
  /\ ticks = 0
  /\ config \in Configs
  /\ storageFailed = FALSE
  /\ emitted = "none"
  /\ call = IdleCall
  /\ registration = NotRegistered

\* the process has ended and started again: a new AuthManager is constructed
\* over the same store (lines 13-25), its loadTokens in slot 1
constructor ==
  /\ Quiet
  /\ ops < MaxOps
  /\ accessToken' = 0
  /\ refreshToken' = 0
  /\ tokenExpiry' = Null
  /\ isAuthenticated' = FALSE
  /\ grant' = NoGrant
  /\ procs' = [p \in Procs |->
                IF p = 1 THEN [Fresh("load") EXCEPT !.pc = "getTokens"] ELSE IdleProc]
  /\ ops' = ops + 1
  /\ storageFailed' = FALSE
  /\ UNCHANGED <<store, pendingClears, now, issued, ticks, oneAtATime, config>>
  /\ emitted' = "none"
  /\ UNCHANGED server

\* callers that do not wait for one another
Init == Constructed /\ oneAtATime = FALSE

Step(p) ==
  \/ loadTokens(p)
  \/ loadTokensFailed(p)
  \/ getAccessToken(p)
  \/ refreshAccessToken(p)
  \/ makeAuthenticatedRequest(p)
  \/ handleCallback(p)
  \/ getAuthorizationUrl(p)
  \/ logout(p)
  \/ exchangeResponse(p)
  \/ exchangeFailed(p)
  \/ refreshResponse(p)
  \/ refreshFailed(p)
  \/ saveCompleted(p)
  \/ saveFailed(p)
  \/ clearCompleted(p)
  \/ apiResponse(p)

Next ==
  \/ Tick
  \/ floatingClearCompleted
  \/ constructor
  \/ \E p \in Procs : Step(p)

Spec == Init /\ [][Next]_vars

\* One caller at a time: a call starts only when no call and no storage
\* operation is in flight.
SeqInit == Constructed /\ oneAtATime = TRUE

SeqSpec == SeqInit /\ [][Next]_vars

\* the response the call in slot p is suspended on arrives: every await of
\* auth.js is on a promise of axios or of tokenStorage, which settles
Respond(p) ==
  \/ loadTokens(p) \/ loadTokensFailed(p)
  \/ exchangeResponse(p) \/ exchangeFailed(p)
  \/ refreshResponse(p) \/ refreshFailed(p)
  \/ saveCompleted(p) \/ saveFailed(p)
  \/ clearCompleted(p)
  \/ apiResponse(p)

\* One caller at a time, and every pending response arrives.
LiveSpec == SeqSpec /\ \A p \in Procs : WF_vars(Respond(p))

\* ------------------------------------------------------- tools: actions
\* the handler of a tool is called with args: lines 223-229.  Arguments that
\* fail the schema go to the catch at once; otherwise the wrapped handler is
\* invoked and awaited
toolCall ==
  /\ call.pc \in {"idle", "settled"}
  /\ call.n < MaxCalls
  /\ \E args \in {"valid", "invalid"} :
       call' = IF args = "invalid"
               THEN [IdleCall EXCEPT !.pc = "settled", !.n = call.n + 1, !.args = args,
                                     !.result = catchError(parseError)]
               ELSE [IdleCall EXCEPT !.pc = "handler", !.n = call.n + 1, !.args = args,
                                     !.invoked = 1]
  /\ UNCHANGED <<auth, registration>>

\* the wrapped handler has returned or thrown: lines 229-263
handlerSettles ==
  /\ call.pc = "handler"
  /\ \E o \in HandlerOutcomes :
       call' = [call EXCEPT !.pc = "settled", !.outcome = o,
                 !.result = IF o.k = "returns"
                            THEN LET j == stringify(o) IN
                                 IF j.ok THEN Resolved(FALSE, j.text)
                                 ELSE catchError(j.error)
                            ELSE catchError(o)]
  /\ UNCHANGED <<auth, registration>>

\* registerTools is called: the register function of the first group is
\* called and awaited (lines 174-193)
registerTools ==
  /\ registration.pc = "idle"
  /\ registration' = [registration EXCEPT !.pc = "awaiting", !.i = 1,
                                           !.called = <<toolRegistrations[1]>>]
  /\ UNCHANGED <<auth, call>>

\* the register function awaited has resolved with count: lines 193-195, then
\* the next turn of the loop or lines 202-204
registerResolves ==
  /\ registration.pc = "awaiting"
  /\ \E count \in Counts :
       LET r == [registration EXCEPT !.totalTools = @ + count,
                                     !.counts = Append(@, count)] IN
       registration' =
         IF r.i = Len(toolRegistrations)
         THEN [r EXCEPT !.pc = "returned", !.result = r.totalTools]
         ELSE [r EXCEPT !.i = @ + 1,
                        !.called = Append(@, toolRegistrations[r.i + 1])]
  /\ UNCHANGED <<auth, call>>

\* mutant: a failed group logged and skipped
registerRejectsContinuing ==
  /\ registration.pc = "awaiting"
  /\ registration' =
       IF registration.i = Len(toolRegistrations)
       THEN [registration EXCEPT !.pc = "returned", !.result = registration.totalTools]
       ELSE [registration EXCEPT !.i = @ + 1,
               !.called = Append(@, toolRegistrations[registration.i + 1])]
  /\ UNCHANGED <<auth, call>>

\* the register function awaited has rejected: lines 196-199 rethrow its error
registerRejects ==
  /\ registration.pc = "awaiting"
  /\ registration' = [registration EXCEPT !.pc = "thrown",
                                           !.thrown = toolRegistrations[registration.i]]
  /\ UNCHANGED <<auth, call>>

ServerNext ==
  \/ toolCall
  \/ handlerSettles
  \/ registerTools
  \/ registerResolves
  \/ registerRejects

\* The tool handlers and registerTools, beside an AuthManager nobody calls.
ServerSpec == SeqInit /\ [][ServerNext]_vars

\* ------------------------------------------------------------------ claims
InFlight(p) == procs[p].pc # "idle"
\* the calls that found the record expired and are waiting for their answer
ExpiredCallers == {p \in Procs : procs[p].op = "get" /\ InFlight(p)}
\* the refresh requests the token endpoint has received and not yet answered
RefreshesInFlight == {p \in Procs : procs[p].pc = "refresh"}
Cleared ==
  accessToken = 0 /\ refreshToken = 0 /\ tokenExpiry = Null /\ ~isAuthenticated
\* the call in slot p is the latest one started
Latest(p) == procs[p].seq = ops

\* C1: getAccessToken calls that are in flight together on an expired record
\* have sent exactly one refresh request between them.
C1_OneRefreshForConcurrentCallers ==
  \A p \in ExpiredCallers : \A q \in ExpiredCallers \ {p} :
    procs[p].nRef + procs[q].nRef = 1

\* C2: at every moment at most one refresh request of the manager is in
\* flight, whichever entry point sent it.
C2_AtMostOneRefreshInFlight == Cardinality(RefreshesInFlight) <= 1

\* C3: once the first API request of makeAuthenticatedRequest was answered 401,
\* the call sends exactly one refresh request and at most one more API request,
\* and a call that ends with the 401 of the retry has sent two API requests and
\* one refresh since the first 401.
C3_OneRefreshOneRetry ==
  \A p \in Procs :
    (procs[p].op = "request" /\ procs[p].r401 # Null) =>
      /\ procs[p].nRef - procs[p].r401 <= 1
      /\ procs[p].nApi <= 2
      /\ (procs[p].res = Err("ApiError", 401) =>
            procs[p].nApi = 2 /\ procs[p].nRef - procs[p].r401 = 1)

\* C4: once refreshAccessToken has failed on an invalid_grant rejection, and no
\* other call was started since, the in-memory record is cleared and the store
\* holds no record.
C4_RevocationClearsStore ==
  \A p \in Procs :
    (Latest(p) /\ procs[p].pc = "idle" /\ procs[p].res.k = "RefreshFailed"
       /\ isInvalidGrant(procs[p].res.v)) =>
      Cleared /\ store = NoTokens

\* C5: a refresh that fails for a transient reason (network failure, 5xx)
\* changes neither the in-memory record nor the persisted one and starts no
\* storage operation.
C5_TransientFailureKeepsRecord ==
  [][\A p \in Procs :
       (procs[p].pc = "refresh" /\ procs'[p].pc = "idle"
          /\ procs'[p].op # "load"
          /\ procs'[p].res.k = "RefreshFailed" /\ isTransient(procs'[p].res.v)) =>
         UNCHANGED <<mem, store, pendingClears>>]_vars

Returns(p) == procs[p].pc # "idle" /\ procs'[p].pc = "idle"
\* a call of operation o starts in slot p in this step
Starts(p, o) == ops' = ops + 1 /\ procs'[p].op = o /\ procs'[p].seq = ops'

\* C7: every access token getAccessToken returns has, when it is returned, at
\* least 300 s left of the lifetime the provider reported for it (stated here
\* for the responses that report a positive expires_in).
C7_ReturnedTokenHasSkewLeft ==
  [][\A p \in Procs :
       ((Starts(p, "get") \/ (procs[p].op = "get" /\ Returns(p)))
          /\ procs'[p].pc = "idle" /\ procs'[p].res.k = "ok"
          /\ procs'[p].res.v = accessToken' /\ grant'.ttl > 0) =>
         grant'.at + grant'.ttl * 1000 - now' >= 300 * 1000]_vars

\* C8: refreshAccessToken called while this.refreshToken is null ends at once
\* with the no-refresh-token error, sends no request and changes neither the
\* in-memory record nor the store.
C8_NoRefreshTokenFailsFast ==
  [][\A p \in Procs :
       (Starts(p, "refresh") /\ refreshToken = 0) =>
         /\ procs'[p].pc = "idle"
         /\ procs'[p].res = Err("NoRefreshToken", 0)
         /\ procs'[p].nRef = 0
         /\ UNCHANGED <<mem, store, pendingClears, issued>>]_vars

\* refreshAccessToken was called without a refresh token and failed
C8_Witness ==
  \E p \in Procs :
    procs[p].op = "refresh" /\ procs[p].res = Err("NoRefreshToken", 0)
      /\ refreshToken = 0

\* the expiry the claims expect for a response stored at time t
ExpectedExpiry(d, t) ==
  t + ((IF d.expires_in = Absent \/ d.expires_in = 0 THEN 3600 ELSE d.expires_in) - 300) * 1000

\* C9: when the answer to a refresh arrives, accessToken and tokenExpiry are
\* overwritten from it, refreshToken is overwritten only if the answer carries
\* one, and the record handed to tokenStorage.saveTokens (and later stored)
\* holds the same three values.
C9_RefreshOverwrites ==
  [][\A p \in Procs :
       /\ (procs[p].pc = "refresh" /\ procs'[p].pc = "save") =>
            LET d == procs'[p].data IN
            /\ d.access_token # accessToken
            /\ accessToken' = d.access_token
            /\ tokenExpiry' = ExpectedExpiry(d, now)
            /\ refreshToken' = IF d.refresh_token # 0 THEN d.refresh_token
                               ELSE refreshToken
            /\ procs'[p].rec = [accessToken |-> accessToken',
                                refreshToken |-> refreshToken',
                                expiresAt |-> toISOString(tokenExpiry')]
       /\ (procs[p].pc = "save" /\ procs[p].op # "callback"
             /\ procs'[p].pc # "save" /\ pendingClears' = pendingClears) =>
            store' = procs[p].rec]_vars

\* a refresh answered without a refresh_token has kept the old refresh token
C9_Witness ==
  \E p \in Procs :
    /\ procs[p].op = "refresh" /\ procs[p].pc = "save"
    /\ procs[p].data.refresh_token = 0
    /\ accessToken = procs[p].data.access_token
    /\ refreshToken # 0 /\ refreshToken = procs[p].sent
    /\ procs[p].rec.refreshToken = refreshToken

\* C10: when handleCallback returns true the record of the response is in
\* memory and in the store and isAuthenticated is true; a getAccessToken that
\* follows before the expiry returns that access token without any request.
C10_CallbackThenGet ==
  [][\A p \in Procs :
       /\ (procs[p].op = "callback" /\ Returns(p) /\ procs'[p].res.k = "ok") =>
            LET d == procs[p].data IN
            /\ isAuthenticated'
            /\ accessToken' = d.access_token
            /\ (d.refresh_token # 0 => refreshToken' = d.refresh_token)
            /\ tokenExpiry' = ExpectedExpiry(d, grant'.at)
            /\ store' = [accessToken |-> accessToken', refreshToken |-> refreshToken',
                         expiresAt |-> toISOString(tokenExpiry')]
       /\ \A q \in Procs :
            (procs[p].op = "callback" /\ procs[p].pc = "idle" /\ procs[p].res.k = "ok"
               /\ Latest(p) /\ Starts(q, "get") /\ ~isTokenExpired) =>
              /\ procs'[q].pc = "idle"
              /\ procs'[q].res = Ok(procs[p].data.access_token)
              /\ procs'[q].nRef = 0
              /\ UNCHANGED <<mem, store, issued>>]_vars

\* handleCallback has returned true and the token it stored is not yet expired
C10_Witness ==
  \E p \in Procs :
    /\ procs[p].op = "callback" /\ procs[p].pc = "idle" /\ procs[p].res.k = "ok"
    /\ Latest(p) /\ isAuthenticated /\ ~isTokenExpired
    /\ accessToken = procs[p].data.access_token
    /\ store.accessToken = accessToken

\* C11: a handleCallback whose code exchange the provider rejects fails and
\* leaves the manager as it was: starting it changes nothing, and the rejection
\* changes no field of the record, starts no storage operation, leaves the
\* store alone and emits no event.
C11_RejectedExchangeChangesNothing ==
  [][\A p \in Procs :
       /\ Starts(p, "callback") =>
            procs'[p].pc = "exchange" /\ UNCHANGED <<mem, store, pendingClears>>
       /\ (procs[p].pc = "exchange" /\ procs'[p].pc = "idle") =>
            /\ procs'[p].res.k = "AuthenticationFailed"
            /\ procs'[p].ev = "none"
            /\ UNCHANGED <<mem, store, pendingClears>>]_vars

\* the code exchange of an unauthenticated manager was rejected
C11_Witness ==
  \E p \in Procs :
    /\ procs[p].op = "callback" /\ procs[p].pc = "idle"
    /\ procs[p].res.k = "AuthenticationFailed" /\ procs[p].data = NoData
    /\ Latest(p) /\ Cleared /\ store = NoTokens

\* C12: getAccessToken called while isAuthenticated is false ends at once with
\* the not-authenticated error, sends no request and changes neither the
\* in-memory record nor the store.
C12_NotAuthenticatedFailsFast ==
  [][\A p \in Procs :
       (Starts(p, "get") /\ ~isAuthenticated) =>
         /\ procs'[p].pc = "idle"
         /\ procs'[p].res = Err("NotAuthenticated", 0)
         /\ procs'[p].nRef = 0 /\ procs'[p].nApi = 0
         /\ UNCHANGED <<mem, store, pendingClears, issued>>]_vars

\* getAccessToken was called on a manager without a record and failed
C12_Witness ==
  \E p \in Procs :
    /\ procs[p].op = "get" /\ procs[p].res = Err("NotAuthenticated", 0)
    /\ Latest(p) /\ ~isAuthenticated

\* C13: when tokenStorage.saveTokens fails after a code exchange or a refresh
\* that the provider answered with tokens, the caller gets the failure and the
\* in-memory record keeps the new access token, refresh token and expiry, with
\* isAuthenticated true.
C13_SaveFailureKeepsMemory ==
  [][\A p \in Procs :
       (procs[p].pc = "save" /\ procs'[p].pc = "idle" /\ procs[p].op # "load"
          /\ procs'[p].res.k \in {"AuthenticationFailed", "RefreshFailed"}) =>
         /\ UNCHANGED mem
         /\ isAuthenticated'
         /\ accessToken' = procs[p].data.access_token]_vars

\* the step is loadTokens taking the record from the store
LoadStep == \E p \in Procs : procs[p].pc = "getTokens" /\ procs'[p].pc # "getTokens"
\* the step constructs a new manager
Constructs == \E p \in Procs : procs[p].pc # "getTokens" /\ procs'[p].pc = "getTokens"
\* the in-memory record after the step, as a record of the store
MemRecordAfter ==
  [accessToken |-> accessToken', refreshToken |-> refreshToken',
   expiresAt |-> toISOString(tokenExpiry')]

\* C14: a step of a code exchange, a refresh or a clear that changes the
\* in-memory record also makes the tokenStorage call for it (saveTokens with the
\* new record, or clearTokens), and handleCallback, refreshAccessToken and
\* clearTokens report success only from the completion of that call.
C14_MutationThenStorageCall ==
  [][/\ (mem' # mem /\ ~LoadStep /\ ~Constructs) =>
          \/ \E p \in Procs :
               /\ procs[p].pc \in {"exchange", "refresh"} /\ procs'[p].pc = "save"
               /\ procs'[p].rec = MemRecordAfter
          \/ \E p \in Procs : Starts(p, "clear") /\ procs'[p].pc = "clear" /\ Cleared'
          \/ pendingClears' = pendingClears + 1 /\ Cleared'
     /\ \A p \in Procs :
          (Returns(p) /\ procs'[p].res.k = "ok"
             /\ procs[p].op \in {"callback", "refresh", "clear"}) =>
            procs[p].pc = (IF procs[p].op = "clear" THEN "clear" ELSE "save")]_vars

\* refreshAccessToken has returned true after its save completed
C14_Witness ==
  \E p \in Procs :
    /\ procs[p].op = "refresh" /\ procs[p].pc = "idle" /\ procs[p].res = Ok(1)
    /\ procs[p].ev = "token_refreshed" /\ Latest(p)
    /\ accessToken = procs[p].data.access_token /\ store.accessToken = accessToken

\* C15: clearTokens sets the four fields to null/false at once, and when it
\* completes it has not failed, the fields are still null/false and the store
\* holds no record, whatever the manager held when it was called.
C15_LogoutClears ==
  [][\A p \in Procs :
       /\ Starts(p, "clear") => procs'[p].pc = "clear" /\ Cleared'
       /\ (procs[p].op = "clear" /\ Returns(p)) =>
            /\ procs'[p].res = Ok(0)
            /\ procs'[p].ev = "logout"
            /\ Cleared' /\ store' = NoTokens]_vars

\* clearTokens has completed
C15_Witness ==
  \E p \in Procs :
    /\ procs[p].op = "clear" /\ procs[p].pc = "idle" /\ procs[p].res = Ok(0)
    /\ Latest(p) /\ Cleared /\ store = NoTokens

\* the errors that tell the caller to authenticate again
AuthErrors == {"NotAuthenticated", "AuthenticationFailed", "RefreshFailed", "NoRefreshToken"}

\* C16: every authentication error a call ended with carries the URL
\* getAuthorizationUrl() returns.
C16_AuthErrorsCarryUrl ==
  \A p \in Procs :
    procs[p].res.k \in AuthErrors => procs[p].res.url = authorizationUrl(config)

\* C17: when the API answers a request of makeAuthenticatedRequest with a
\* failure other than 401, the call ends at once with that failure and its
\* status, sends no refresh request and no further API request, and leaves the
\* in-memory record and the store alone.
C17_OtherFailuresPropagate ==
  [][\A p \in Procs :
       (procs[p].pc = "api" /\ procs'[p] # procs[p]
          /\ procs'[p].status \notin {200, 401}) =>
         /\ procs'[p].pc = "idle"
         /\ procs'[p].res = Err("ApiError", procs'[p].status)
         /\ procs'[p].nRef = procs[p].nRef
         /\ procs'[p].nApi = procs[p].nApi
         /\ UNCHANGED <<mem, store, pendingClears, issued>>]_vars

\* the first request of a call was answered 500 and the call ended with it
C17_Witness ==
  \E p \in Procs :
    /\ procs[p].op = "request" /\ procs[p].pc = "idle"
    /\ procs[p].res = Err("ApiError", 500)
    /\ procs[p].nApi = 1 /\ procs[p].nRef = 0
    /\ isAuthenticated /\ accessToken # 0

\* the URL the claims expect for the configuration
ExpectedUrl ==
  <<config.authUrl, "/authorize", "?",
    "response_type", "=", "code", "&",
    "client_id", "=", formEncode(config.clientId), "&",
    "redirect_uri", "=", formEncode(config.callbackUrl), "&",
    "scope", "=", formEncode(config.scope)>>

\* C18: getAuthorizationUrl returns at once the URL built from clientId,
\* callbackUrl and scope, sends no request, changes no field of the manager,
\* nothing in the store and no other call, and returns what the call before
\* it returned.
C18_AuthorizationUrlIsPure ==
  [][\A p \in Procs :
       Starts(p, "url") =>
         /\ procs'[p].pc = "idle" /\ procs'[p].res.k = "ok"
         /\ procs'[p].res.url = ExpectedUrl
         /\ procs'[p].nRef = 0 /\ procs'[p].nApi = 0
         /\ UNCHANGED <<mem, store, pendingClears, issued, now, grant, config>>
         /\ \A q \in Procs \ {p} : procs'[q] = procs[q]
         /\ (procs[p].op = "url" => procs'[p].res.url = procs[p].res.url)]_vars

\* getAuthorizationUrl has returned on an authenticated manager whose
\* clientId needs encoding
C18_Witness ==
  \E p \in Procs :
    /\ procs[p].op = "url" /\ procs[p].pc = "idle" /\ procs[p].res.k = "ok"
    /\ procs[p].res.url = ExpectedUrl
    /\ config.clientId = "client b" /\ isAuthenticated /\ Latest(p)

\* C19: when loadTokens gets from the store a record that is not yet expired,
\* it ends with accessToken, refreshToken and tokenExpiry equal to that record
\* and isAuthenticated true, without any request and without touching the
\* store (a load whose read of the store fails leaves the manager without a
\* record).
C19_SavedRecordLoads ==
  [][\A p \in Procs :
       (procs[p].pc = "getTokens" /\ procs'[p].pc # "getTokens" /\ store # NoTokens
          /\ ~isTokenExpiredAt(store.expiresAt.sec * 1000 + store.expiresAt.ms, now)) =>
         /\ procs'[p].pc = "idle" /\ procs'[p].nRef = 0
         /\ UNCHANGED <<store, pendingClears, issued>>
         /\ \/ UNCHANGED mem
            \/ /\ accessToken' = store.accessToken
               /\ refreshToken' = store.refreshToken
               /\ tokenExpiry' = store.expiresAt.sec * 1000 + store.expiresAt.ms
               /\ isAuthenticated']_vars

\* a manager constructed after a restart has loaded the record an earlier
\* saveTokens persisted, whose expiry is not on a whole second
C19_Witness ==
  \E p \in Procs :
    /\ procs[p].op = "load" /\ procs[p].seq > 0 /\ procs[p].pc = "idle"
    /\ procs[p].nRef = 0
    /\ store.accessToken > 1 /\ store.expiresAt.ms # 0
    /\ accessToken = store.accessToken /\ refreshToken = store.refreshToken
    /\ toISOString(tokenExpiry) = store.expiresAt
    /\ isAuthenticated /\ ~isTokenExpired

\* C20: whenever makeAuthenticatedRequest sends an API request (the first one
\* or the retry), the record is not expired at that moment and the request
\* carries this.accessToken.
C20_NoRequestWhileExpired ==
  [][\A p \in Procs :
       (procs'[p].op = "request" /\ procs'[p].pc = "api" /\ procs[p].pc # "api") =>
         /\ ~isTokenExpiredAt(tokenExpiry', now')
         /\ (procs'[p].own = 0 => procs'[p].hdr = accessToken')]_vars

\* C21: no refresh request waiting at the provider carries a refresh token
\* that the provider has already replaced in its answer to another refresh
\* request of the manager.
C21_NoConsumedRefreshTokenSent ==
  \A p \in Procs : \A q \in Procs \ {p} :
    (procs[p].pc = "save" /\ procs[p].sent # 0 /\ procs[p].data.refresh_token # 0
       /\ procs[q].pc = "refresh") =>
      procs[q].sent # procs[p].sent

\* the call in slot p sent one refresh request and returned normally
RefreshedOk(p) ==
  procs[p].op \in {"refresh", "get"} /\ procs[p].pc = "idle"
    /\ procs[p].nRef = 1 /\ procs[p].res.k = "ok"
\* the call in slot p sent one refresh request and got the refresh failure
RefreshedFailed(p) ==
  procs[p].op \in {"refresh", "get"} /\ procs[p].pc = "idle"
    /\ procs[p].nRef = 1 /\ procs[p].res.k = "RefreshFailed"

\* C22: when two refreshing calls have overlapped (the later one started while
\* the earlier one was in flight), one succeeded, the other failed, and nothing
\* is in flight any more, the manager is authenticated and memory and store
\* hold the access token of the successful response.
C22_OverlappingFailureKeepsRecord ==
  \A p \in Procs : \A q \in Procs \ {p} :
    (Quiet /\ p < q /\ procs[p].seq < procs[q].seq
       /\ ((RefreshedOk(p) /\ RefreshedFailed(q)) \/ (RefreshedFailed(p) /\ RefreshedOk(q)))) =>
      LET w == IF RefreshedOk(p) THEN p ELSE q IN
      /\ isAuthenticated
      /\ accessToken = procs[w].data.access_token
      /\ store.accessToken = accessToken

\* C23: a getAccessToken call that has returned normally has returned an
\* access token that is not null.
C23_ResolvedTokenNotNull ==
  \A p \in Procs :
    (procs[p].op = "get" /\ procs[p].pc = "idle" /\ procs[p].res.k = "ok") =>
      procs[p].res.v # 0

\* C24: when the answer to a refreshAccessToken call arrives after a
\* clearTokens call that was made while the refresh was in flight (and no call
\* was made since), the answer does not authenticate the manager again and
\* starts no save.
C24_LogoutDuringRefreshWins ==
  [][\A p \in Procs : \A q \in Procs \ {p} :
       (procs[p].op = "refresh" /\ procs[p].pc = "refresh" /\ procs'[p] # procs[p]
          /\ procs[q].op = "clear" /\ procs[q].seq > procs[p].seq /\ Latest(q)) =>
         /\ ~isAuthenticated'
         /\ procs'[p].pc # "save"]_vars

\* the persisted record and the in-memory record agree
Agree ==
  \/ Cleared /\ store = NoTokens
  \/ /\ isAuthenticated /\ tokenExpiry # Null
     /\ store = [accessToken |-> accessToken, refreshToken |-> refreshToken,
                 expiresAt |-> toISOString(tokenExpiry)]

\* C25: whenever no operation and no storage call is in flight, the persisted
\* record and the in-memory record agree (stated here for the managers none of
\* whose tokenStorage calls has failed).
C25_QuietRecordsAgree == (Quiet /\ ~storageFailed) => Agree

\* C26: in every state, isAuthenticated false goes with accessToken,
\* refreshToken and tokenExpiry all null, and isAuthenticated true with
\* accessToken and tokenExpiry both set.
C26_FieldsConsistent ==
  /\ ~isAuthenticated => (accessToken = 0 /\ refreshToken = 0 /\ tokenExpiry = Null)
  /\ isAuthenticated => (accessToken # 0 /\ tokenExpiry # Null)

\* a call is suspended on its save while the manager is authenticated without
\* a refresh token
C26_Witness ==
  \E p \in Procs :
    /\ procs[p].pc = "save"
    /\ isAuthenticated /\ accessToken # 0 /\ tokenExpiry # Null /\ refreshToken = 0

\* the forced refresh of the makeAuthenticatedRequest call in slot p fails in
\* this step: at once (no refresh token), on its request, or on its save
ForcedRefreshFails(p) ==
  /\ procs[p].op = "request" /\ procs'[p].pc = "idle"
  /\ \/ procs[p].pc = "api" /\ procs[p].nApi = 1 /\ procs'[p].status = 401
     \/ /\ procs[p].pc \in {"refresh", "save"} /\ procs[p].phase = "forced"
        /\ procs'[p].res.k = "RefreshFailed"

\* C27 as stated: when the forced refresh after a 401 fails, no retry request
\* was sent, the caller gets the refresh failure and the record is cleared.
C27_ForcedRefreshFailureClears ==
  [][\A p \in Procs :
       ForcedRefreshFails(p) =>
         /\ procs'[p].nApi = 1
         /\ procs'[p].res.k \in {"RefreshFailed", "NoRefreshToken"}
         /\ Cleared']_vars

\* C27 amended: the same, except that a forced refresh that fails because the
\* manager holds no refresh token leaves the record and the store as they are.
C27_ForcedRefreshFailure ==
  [][\A p \in Procs :
       ForcedRefreshFails(p) =>
         /\ procs'[p].nApi = 1
         /\ \/ /\ procs'[p].res.k = "RefreshFailed"
               /\ Cleared' /\ pendingClears' = pendingClears + 1
            \/ /\ procs'[p].res.k = "NoRefreshToken"
               /\ refreshToken = 0
               /\ UNCHANGED <<mem, store, pendingClears>>]_vars

\* a request was answered 401, its forced refresh was rejected and the call
\* ended with the refresh failure after one API request
C27_Witness ==
  \E p \in Procs :
    /\ procs[p].op = "request" /\ procs[p].pc = "idle" /\ Latest(p)
    /\ procs[p].status = 401 /\ procs[p].nApi = 1
    /\ procs[p].nRef = procs[p].r401 + 1
    /\ procs[p].res.k = "RefreshFailed" /\ Cleared

\* the refresh made for the first headers of the makeAuthenticatedRequest call
\* in slot p fails in this step, on its request or on its save
FirstRefreshFails(p) ==
  /\ procs[p].op = "request" /\ procs[p].phase = "hdr1"
  /\ procs'[p] # procs[p]
  /\ \/ procs[p].pc = "refresh" /\ procs'[p].pc # "save"
     \/ procs[p].pc = "save" /\ procs'[p].ev # "token_refreshed"

\* C28: makeAuthenticatedRequest on an unauthenticated manager, or on one whose
\* expired token cannot be refreshed before the request (no refresh token, or
\* the refresh fails), fails without having sent an API request.
C28_NoRequestWithoutToken ==
  [][\A p \in Procs :
       /\ (Starts(p, "request") /\ ~isAuthenticated) =>
            /\ procs'[p].pc = "idle" /\ procs'[p].nApi = 0
            /\ procs'[p].res.k = "NotAuthenticated"
       /\ (Starts(p, "request") /\ isAuthenticated /\ isTokenExpired /\ refreshToken = 0) =>
            /\ procs'[p].pc = "idle" /\ procs'[p].nApi = 0
            /\ procs'[p].res.k = "NoRefreshToken"
       /\ FirstRefreshFails(p) =>
            /\ procs'[p].pc = "idle" /\ procs'[p].nApi = 0
            /\ procs'[p].res.k = "RefreshFailed"]_vars

\* a request found the token expired, its refresh was rejected and the call
\* ended without an API request
C28_Witness ==
  \E p \in Procs :
    /\ procs[p].op = "request" /\ procs[p].pc = "idle" /\ Latest(p)
    /\ procs[p].res.k = "RefreshFailed" /\ procs[p].r401 = Null
    /\ procs[p].nRef = 1 /\ procs[p].nApi = 0

\* a makeAuthenticatedRequest call is in flight in slot p
RequestInFlight(p) == procs[p].op = "request" /\ procs[p].pc # "idle"

\* C29: a makeAuthenticatedRequest call has sent at most 2 API requests and at
\* most 3 token requests, and once its pending responses arrive it ends,
\* whatever the responses are.
C29_RequestTerminates ==
  /\ [](\A p \in Procs : procs[p].op = "request" =>
          procs[p].nApi <= 2 /\ procs[p].nRef <= 3)
  /\ \A p \in Procs : RequestInFlight(p) ~> Idle(p)

\* a request on an expired record was answered 401 twice, after three
\* refreshes each of which stored a token that is expired at once
C29_Witness ==
  \E p \in Procs :
    /\ procs[p].op = "request" /\ procs[p].pc = "idle" /\ Latest(p)
    /\ procs[p].nRef = 3 /\ procs[p].nApi = 2
    /\ procs[p].status = 401 /\ procs[p].res.k = "ApiError"

\* C30: every API request makeAuthenticatedRequest sends, whatever the options
\* hold, carries in Authorization the access token of the manager at that
\* moment (the one getAccessToken returned for this attempt).
C30_RequestCarriesManagerToken ==
  [][\A p \in Procs :
       (procs'[p].op = "request" /\ procs[p].pc # "api" /\ procs'[p].pc = "api") =>
         procs'[p].hdr = accessToken']_vars

\* the stored record read as loadTokens reads it is expired
StoredExpired == store # NoTokens /\ isTokenExpiredAt(newDate(store.expiresAt), now)
\* tokenStorage.getTokens answers the loadTokens of slot p in this step
Loads(p) == procs[p].pc = "getTokens" /\ procs'[p].pc # "getTokens"
\* the refresh loadTokens awaits in slot p fails in this step, on its request
\* or on its save
LoadRefreshFails(p) ==
  /\ procs[p].op = "load" /\ procs'[p] # procs[p]
  /\ \/ procs[p].pc = "refresh" /\ procs'[p].pc # "save"
     \/ procs[p].pc = "save" /\ procs'[p].ev # "token_refreshed"
\* the startup load of slot p has settled after a failed refresh, nothing was
\* called since and no storage call is pending
LoadSettledFailed(p) ==
  /\ procs[p].op = "load" /\ procs[p].pc = "idle" /\ Latest(p)
  /\ procs[p].nRef = 1 /\ procs[p].ev # "token_refreshed"
  /\ pendingClears = 0
\* loadTokens over an empty or unreadable store: no request, nothing loaded
LoadsNothing(p) ==
  (Loads(p) /\ (store = NoTokens \/ storageFailed')) =>
    /\ procs'[p].pc = "idle" /\ procs'[p].nRef = 0 /\ procs'[p].res = Ok(0)
    /\ ~isAuthenticated' /\ UNCHANGED <<mem, store, issued, pendingClears>>
\* a failed startup refresh does not reject loadTokens and clears the record
LoadFailureSwallowed(p) ==
  LoadRefreshFails(p) =>
    /\ procs'[p].pc = "idle" /\ procs'[p].res = Ok(0) /\ procs'[p].nRef = 1
    /\ Cleared' /\ pendingClears' = pendingClears + 1

\* C31 as stated: loadTokens over an expired record sends exactly one refresh
\* request; if the refresh fails loadTokens still resolves and the manager ends
\* unauthenticated over an empty store; over an empty or unreadable store it
\* sends nothing and the manager stays unauthenticated.
C31_StartupRefreshOnce ==
  /\ [](\A p \in Procs : LoadSettledFailed(p) => Cleared /\ store = NoTokens)
  /\ [][\A p \in Procs :
          /\ (Loads(p) /\ ~storageFailed' /\ StoredExpired) =>
               procs'[p].pc = "refresh" /\ procs'[p].nRef = 1
          /\ LoadFailureSwallowed(p)
          /\ LoadsNothing(p)]_vars

\* C31 amended: the same for an expired record that holds a refresh token; over
\* an expired record without one, loadTokens sends no request, resolves, and
\* leaves the expired record in memory and in the store.
C31_StartupRefresh ==
  /\ [](\A p \in Procs : LoadSettledFailed(p) => Cleared /\ store = NoTokens)
  /\ [][\A p \in Procs :
          /\ (Loads(p) /\ ~storageFailed' /\ StoredExpired /\ store.refreshToken # 0) =>
               procs'[p].pc = "refresh" /\ procs'[p].nRef = 1
          /\ (Loads(p) /\ ~storageFailed' /\ StoredExpired /\ store.refreshToken = 0) =>
               /\ procs'[p].pc = "idle" /\ procs'[p].nRef = 0 /\ procs'[p].res = Ok(0)
               /\ isAuthenticated' /\ accessToken' = store.accessToken
               /\ UNCHANGED <<store, issued, pendingClears>>
          /\ LoadFailureSwallowed(p)
          /\ LoadsNothing(p)]_vars

\* the startup refresh over an expired record was rejected: loadTokens has
\* resolved and the manager is unauthenticated over an empty store
C31_Witness ==
  \E p \in Procs :
    /\ LoadSettledFailed(p) /\ procs[p].res = Ok(0)
    /\ Cleared /\ store = NoTokens /\ issued = 1

\* C32: a getAccessToken called as the first call after construction, over a
\* store that holds an unexpired record, returns the persisted access token at
\* once, whether the loadTokens of the constructor has completed or not.
C32_GetAfterConstruction ==
  [][\A p \in Procs : \A q \in Procs :
       (/\ Starts(p, "get")
        /\ procs[q].op = "load" /\ Latest(q)
        /\ ~storageFailed /\ store # NoTokens /\ ~StoredExpired) =>
         procs'[p].pc = "idle" /\ procs'[p].res = Ok(store.accessToken)]_vars

\* C33: once the startup loadTokens and a handleCallback called during it have
\* both settled, the callback having succeeded, the manager is authenticated
\* with the access token and the refresh token of the code-exchange response.
C33_CallbackOutlivesStartupLoad ==
  \A p \in Procs : \A q \in Procs :
    (/\ Quiet
     /\ procs[q].op = "load"
     /\ procs[p].op = "callback" /\ procs[p].seq = procs[q].seq + 1 /\ Latest(p)
     /\ procs[p].res = Ok(1)) =>
      /\ isAuthenticated
      /\ accessToken = procs[p].data.access_token
      /\ procs[p].data.refresh_token # 0 => refreshToken = procs[p].data.refresh_token

\* the tokenStorage.saveTokens the call in slot p awaits completes in this step
SaveCompletes(p) ==
  procs[p].pc = "save" /\ procs'[p].pc # "save" /\ store' = procs[p].rec
\* a tokenStorage.clearTokens completes in this step
ClearCompletes ==
  \/ \E p \in Procs : procs[p].pc = "clear" /\ procs'[p].pc # "clear"
  \/ pendingClears' < pendingClears

\* C34: 'authenticated' is emitted by exactly the steps that complete the save
\* of a code exchange, 'token_refreshed' by exactly those that complete the
\* save of a refresh, with the new record in memory and in the store; 'logout'
\* by exactly the steps that complete a storage clear, with the store empty;
\* a call that fails emits neither 'authenticated' nor 'token_refreshed'.
C34_EventsFollowStorage ==
  [][/\ emitted' = "authenticated" <=>
          \E p \in Procs : procs[p].op = "callback" /\ SaveCompletes(p)
     /\ emitted' = "token_refreshed" <=>
          \E p \in Procs : procs[p].op # "callback" /\ SaveCompletes(p)
     /\ emitted' = "logout" <=> ClearCompletes
     /\ emitted' \in {"authenticated", "token_refreshed"} =>
          /\ isAuthenticated' /\ store' = MemRecordAfter
          /\ \E p \in Procs : SaveCompletes(p) /\ accessToken' = procs[p].data.access_token
     /\ emitted' = "logout" => (store' = NoTokens /\ Cleared')
     /\ \A p \in Procs :
          /\ (procs[p].op = "callback" /\ Returns(p)) =>
               (procs'[p].res.k = "ok" <=> emitted' = "authenticated")
          /\ (procs[p].op = "refresh" /\ Returns(p)) =>
               (procs'[p].res.k = "ok" <=> emitted' = "token_refreshed")]_vars

\* a refresh has just emitted 'token_refreshed' with its record stored
C34_Witness ==
  /\ emitted = "token_refreshed"
  /\ \E p \in Procs :
       /\ procs[p].op = "refresh" /\ procs[p].pc = "idle" /\ procs[p].res = Ok(1)
       /\ store.accessToken = procs[p].data.access_token
       /\ accessToken = store.accessToken

\* C35: when a token response is stored, tokenExpiry is the time of storing
\* plus (E - 300) seconds, E being the response's expires_in, or 3600 when that
\* is absent or 0; it is never the time of storing plus the raw E, and the
\* record handed to the store carries the same instant.
C35_ExpiryIsSkewedTtl ==
  [][\A p \in Procs :
       (procs[p].pc \in {"exchange", "refresh"} /\ procs'[p].pc = "save") =>
         LET d == procs'[p].data
             E == IF d.expires_in = Absent \/ d.expires_in = 0 THEN 3600
                  ELSE d.expires_in
         IN /\ tokenExpiry' = now + (E - 300) * 1000
            /\ tokenExpiry' # now + E * 1000
            /\ procs'[p].rec.expiresAt = toISOString(tokenExpiry')]_vars

\* a response with expires_in = 0 was stored with an expiry 3300 s ahead, and
\* one with expires_in = 299 with an expiry one second back
C35_Witness ==
  /\ isAuthenticated
  /\ \/ grant.ttl = 0 /\ tokenExpiry = grant.at + 3300 * 1000
     \/ grant.ttl = 299 /\ tokenExpiry = grant.at - 1000
  /\ \E p \in Procs : procs[p].pc = "save" /\ procs[p].data.expires_in = grant.ttl

\* C36: a settled call of a tool handler has resolved, never rejected: with a
\* 'Validation error' result and the wrapped handler not invoked when the
\* arguments fail the schema; with 'Error: <message>' when the wrapped handler
\* threw; and otherwise with a result without isError.
C36_HandlerNeverRejects ==
  call.pc = "settled" =>
    /\ call.result.settled = "resolved"
    /\ call.args = "invalid" =>
         /\ call.invoked = 0 /\ call.result.isError
         /\ call.result.text[1] = "Validation error: "
    /\ (call.args = "valid" /\ call.outcome.k = "throws") =>
         /\ call.invoked = 1 /\ call.result.isError
         /\ call.result.text = <<"Error: ", call.outcome.s>>
    /\ (call.args = "valid" /\ call.outcome.k = "returns") =>
         call.invoked = 1 /\ ~call.result.isError

RECURSIVE SumOf(_)
SumOf(counts) == IF counts = <<>> THEN 0 ELSE Head(counts) + SumOf(Tail(counts))

\* C37: the register functions are called in the order Projects, Issues, RFIs,
\* Submittals, Photos, Forms, Cost, Locations, Documents, each only once the
\* one before it has resolved; when one rejects, registerTools throws its
\* error and no later one is called; when all nine have resolved it returns
\* the sum of their counts.
C37_RegistrationInOrder ==
  LET r == registration
      order == <<"Projects", "Issues", "RFIs", "Submittals", "Photos", "Forms",
                 "Cost", "Locations", "Documents">>
  IN /\ Len(r.called) <= 9
     /\ r.called = SubSeq(order, 1, Len(r.called))
     /\ r.pc = "awaiting" => Len(r.called) = Len(r.counts) + 1
     /\ r.pc = "thrown" =>
          /\ Len(r.called) = Len(r.counts) + 1
          /\ r.thrown = order[Len(r.called)]
          /\ r.result = Null
     /\ r.pc = "returned" =>
          /\ Len(r.counts) = 9 /\ Len(r.called) = 9
          /\ r.result = SumOf(r.counts)
          /\ r.thrown = "none"

\* registerTools has returned the sum of nine counts that are not all equal
C37_Witness ==
  /\ registration.pc = "returned"
  /\ registration.called[9] = "Documents"
  /\ registration.counts[1] # registration.counts[9]
  /\ registration.result = 15

====
